---- MODULE Spec2Model ----
(***************************************************************************)
(* A model of sa_gapminder.py: the support functions that validate, trim,  *)
(* transpose and clean a Gapminder table (countries by years).             *)
(*                                                                         *)
(* A DataFrame is a record                                                 *)
(*   columns, colname : the column labels and the name of the column Index *)
(*   index, idxname   : the row labels and the name of the row Index       *)
(*   data             : the rows, each a sequence of cells                 *)
(*   name             : the ad-hoc .name attribute transpose_df sets       *)
(* Every label and every cell is a string: an int is written as its       *)
(* digits ("10"), a float with a decimal point ("10.0", "10.5"), a missing *)
(* value is NaN, and a missing Index name or attribute is the empty        *)
(* string.  DataFrames live in a heap of objects, so that an               *)
(* in-place operation (drop, dropna with inplace=True) changes what every  *)
(* holder of the reference sees, and copy() / transpose() make new objects.*)
(***************************************************************************)
EXTENDS Integers, Sequences, FiniteSets, TLC

\* ---------------------------------------------------------------- bounds
MaxYears == 5
MaxCalls == 2

\* ------------------------------------------------------------- universes
NaN == "NaN"
None == [isNone |-> TRUE]

Countries == <<"A", "B">>
YearLabels == <<"1970", "1971", "1972", "1973", "1974", "1975", "1976", "1977">>
RangeLabels == <<"0", "1", "2", "3", "4", "5", "6", "7", "8", "9">>
\* the value of country i in year j: a float, or an int in a column of
\* whole numbers
Vals ==
  << <<"10.5", "11.5", "12.5", "13.5", "14.5", "15.5", "16.5", "17.5">>,
     <<"20.5", "21.5", "22.5", "23.5", "24.5", "25.5", "26.5", "27.5">> >>
WholeVals ==
  << <<"10", "11", "12", "13", "14", "15", "16", "17">>,
     <<"20", "21", "22", "23", "24", "25", "26", "27">> >>

SeqToSet(s) == {s[i] : i \in 1..Len(s)}

\* What pd.to_numeric parses as an int: digit strings.
IntStrings ==
  SeqToSet(YearLabels) \cup SeqToSet(RangeLabels)
    \cup SeqToSet(WholeVals[1]) \cup SeqToSet(WholeVals[2])

\* float(c) of a number c
AsFloat(c) == IF c \in IntStrings THEN c \o ".0" ELSE c

FloatStrings ==
  SeqToSet(Vals[1]) \cup SeqToSet(Vals[2]) \cup {AsFloat(c) : c \in IntStrings}

\* What pd.to_numeric parses (NaN stays NaN, a float).
NumericStrings == IntStrings \cup FloatStrings

\* Labels that are Python ints (a RangeIndex label), not str.
IntLabels == SeqToSet(RangeLabels)

\* ------------------------------------------------------ sequence helpers
Positions(n) == [i \in 1..n |-> i]

Reverse(s) == [i \in 1..Len(s) |-> s[Len(s) + 1 - i]]

\* The positions of s (in order) that satisfy Keep.
KeepPos(s, Keep(_)) == SelectSeq(Positions(Len(s)), Keep)

RECURSIVE Flatten(_)
Flatten(ss) == IF Len(ss) = 0 THEN <<>> ELSE Head(ss) \o Flatten(Tail(ss))

\* ---------------------------------------------------- pandas primitives
DataFrame(columns, colname, index, idxname, data, name) ==
  [columns |-> columns, colname |-> colname, index |-> index,
   idxname |-> idxname, data |-> data, name |-> name]

NRows(t) == Len(t.index)
NCols(t) == Len(t.columns)

\* Index.contains(key) / key in df.columns
Contains(t, key) == key \in SeqToSet(t.columns)

\* Index.get_loc(key) for a unique label, 0-based; -1 when it is not unique
\* (pandas then returns a slice or a mask, not an int) or is missing.
get_loc(t, key) ==
  LET ps == KeepPos(t.columns, LAMBDA j : t.columns[j] = key)
  IN  IF Len(ps) = 1 THEN ps[1] - 1 ELSE -1

TakeCols(t, ps) ==
  [t EXCEPT !.columns = [k \in 1..Len(ps) |-> t.columns[ps[k]]],
            !.data = [i \in 1..NRows(t) |->
                        [k \in 1..Len(ps) |-> t.data[i][ps[k]]]]]

TakeRows(t, ps) ==
  [t EXCEPT !.index = [k \in 1..Len(ps) |-> t.index[ps[k]]],
            !.data = [k \in 1..Len(ps) |-> t.data[ps[k]]]]

\* DataFrame.drop(labels, axis=1): every column carrying one of the labels.
DropColumns(t, labels) ==
  TakeCols(t, KeepPos(t.columns, LAMBDA j : t.columns[j] \notin labels))

isnull(c) == c = NaN

Cells(t) == {t.data[i][j] : i \in 1..NRows(t), j \in 1..NCols(t)}

\* df.values: the cells as one array.  Columns of int64 and float64 come
\* out as float64; with a column of objects (strings) the cells stay as
\* they are, boxed.
df_values(t) ==
  IF /\ Cells(t) \subseteq NumericStrings \cup {NaN}
     /\ Cells(t) \cap (FloatStrings \cup {NaN}) # {}
  THEN [i \in 1..NRows(t) |-> [j \in 1..NCols(t) |-> AsFloat(t.data[i][j])]]
  ELSE t.data

\* DataFrame.transpose(): a new frame, rows and columns (and the two Index
\* names) swapped.  The .name attribute is not carried over.
Transpose(t) ==
  DataFrame(t.index, t.idxname, t.columns, t.colname,
            [j \in 1..NCols(t) |-> [i \in 1..NRows(t) |-> df_values(t)[i][j]]],
            "")

\* df.apply(lambda x: pd.to_numeric(x)) succeeds iff every cell parses.
to_numeric_ok(t) == Cells(t) \subseteq NumericStrings \cup {NaN}

\* df.isnull().sum() for column j
NullCount(t, j) == Cardinality({i \in 1..NRows(t) : isnull(t.data[i][j])})

\* pad_inplace of pandas' algos: the forward fill of one column, at most
\* lim consecutive cells after each valid one.
RECURSIVE pad_from(_, _, _, _, _)
pad_from(values, i, val, fill_count, lim) ==
  IF i > Len(values) THEN values
  ELSE IF isnull(values[i])
       THEN IF fill_count >= lim
            THEN pad_from(values, i + 1, val, fill_count, lim)
            ELSE pad_from([values EXCEPT ![i] = val], i + 1, val,
                          fill_count + 1, lim)
       ELSE pad_from(values, i + 1, values[i], 0, lim)

pad(values, lim) ==
  IF Len(values) = 0 THEN values
  ELSE pad_from(values, 1, values[1], 0, lim)

backfill(values, lim) == Reverse(pad(Reverse(values), lim))

ColumnOf(t, j) == [i \in 1..NRows(t) |-> t.data[i][j]]

\* Rebuild a frame from its columns (each a sequence over the rows).
WithColumns(t, colvals) ==
  [t EXCEPT !.data = [i \in 1..NRows(t) |->
                        [j \in 1..NCols(t) |-> colvals[j][i]]]]

\* pd.to_numeric(x) of a column that parses: float64 when a float or a
\* missing value is among the cells, int64 otherwise
to_numeric_column(x) ==
  IF SeqToSet(x) \cap (FloatStrings \cup {NaN}) # {}
  THEN [i \in 1..Len(x) |-> AsFloat(x[i])]
  ELSE x

\* df.apply(lambda x: pd.to_numeric(x))
to_numeric(t) ==
  WithColumns(t, [j \in 1..NCols(t) |-> to_numeric_column(ColumnOf(t, j))])

\* df.fillna(method='ffill' / 'bfill', limit=lim), along the rows
ffill(t, lim) ==
  WithColumns(t, [j \in 1..NCols(t) |-> pad(ColumnOf(t, j), lim)])

bfill(t, lim) ==
  WithColumns(t, [j \in 1..NCols(t) |-> backfill(ColumnOf(t, j), lim)])

\* ------------------------------------------------------------ arguments
\* A years / list_cols / start_year argument: None, a str or a list of str.
YearsNone == [kind |-> "None", s |-> "", l |-> <<>>]
YearsStr(x) == [kind |-> "str", s |-> x, l |-> <<>>]
YearsList(xs) == [kind |-> "list", s |-> "", l |-> xs]

\* ----------------------------------------------------------- valid_args
\* The diagnostics valid_args prints, one entry per print, in order.
YearErrors(df, years) ==
  IF years.kind = "str"
  THEN IF Contains(df, years.s) THEN <<>> ELSE <<"year">>
  ELSE IF years.kind = "list"
       THEN [k \in 1..Len(SelectSeq(years.l, LAMBDA y : ~Contains(df, y)))
               |-> "year"]
       ELSE <<>>

\* (a validator that returns at the first failed check)
valid_args_msgs_first_only(df, years, threshold, limit) ==
  IF df = None THEN <<"dataframe">>
  ELSE IF Len(YearErrors(df, years)) > 0 THEN YearErrors(df, years)
  ELSE IF (threshold < 0) \/ (threshold > 99) THEN <<"threshold">>
  ELSE IF (limit < 0) \/ (limit > 5) THEN <<"limit">>
  ELSE <<>>

valid_args_msgs(df, years, threshold, limit) ==
  (IF df # None THEN YearErrors(df, years) ELSE <<"dataframe">>)
    \o (IF (threshold < 0) \/ (threshold > 99) THEN <<"threshold">> ELSE <<>>)
    \o (IF (limit < 0) \/ (limit > 5) THEN <<"limit">> ELSE <<>>)

\* is_valid starts True and every failed check sets it False.
valid_args(df, years, threshold, limit) ==
  Len(valid_args_msgs(df, years, threshold, limit)) = 0

\* ---------------------------------------------------------- transpose_df
Returned(t) == [kind |-> "DataFrame", df |-> t]
ReturnedNone == [kind |-> "None", df |-> None]
Raised == [kind |-> "raise", df |-> None]

\* df_T.reset_index(): the row Index becomes column 0, labelled by the
\* Index name ('index', or 'level_0', when it has none); inserting a label
\* the frame already has raises.
reset_index_label_unnamed(t) ==
  IF Contains(t, "index") THEN "level_0" ELSE "index"

reset_index_label(t) ==
  IF t.idxname # "" THEN t.idxname
  ELSE IF Contains(t, "index") THEN "level_0" ELSE "index"

reset_index(t) ==
  [t EXCEPT !.columns = <<reset_index_label(t)>> \o t.columns,
            !.data = [i \in 1..NRows(t) |-> <<t.index[i]>> \o t.data[i]],
            !.index = [i \in 1..NRows(t) |-> RangeLabels[i]],
            !.idxname = ""]

transpose_country(df) ==
  LET df_T == Transpose(df)
      \* header = df_T.iloc[0]; df_T = df_T[1:]; df_T.columns = header
      \* (the column Index takes the Series' name, the label of row 0)
      shifted == [TakeRows(df_T, [k \in 1..(NRows(df_T) - 1) |-> k + 1])
                    EXCEPT !.columns = df_T.data[1],
                           !.colname = df_T.index[1]]
  IN  IF NRows(df_T) = 0 THEN Raised
      ELSE IF ~to_numeric_ok(shifted) THEN Raised
      ELSE Returned([to_numeric(shifted) EXCEPT !.name = "col_type_country"])

transpose_year(df) ==
  LET df_T == Transpose(df)
  IN  IF ~to_numeric_ok(df_T) THEN Raised
      ELSE IF Contains(df_T, reset_index_label(df_T)) THEN Raised
      ELSE Returned([reset_index(to_numeric(df_T))
                       EXCEPT !.name = "col_type_year"])

transpose_df(df, column_type) ==
  IF ~valid_args(df, YearsNone, 20, 3) THEN ReturnedNone
  ELSE IF column_type = "country" THEN transpose_country(df)
  ELSE IF column_type = "year" THEN transpose_year(df)
  ELSE Returned([Transpose(df) EXCEPT !.name = "col_type_other"])

\* ---------------------------------------------------- clean_missing_data
\* list_above_threshold: isnull().sum()/len(df_T) > threshold/100 for the
\* column at position j.  Both sides are quotients of small integers, which
\* float division rounds to the same double exactly when the fractions are
\* equal, so the comparison is the one of the exact fractions; with no
\* rows the left side is NaN and the comparison is False.
above_threshold_or_equal(df_T, j, threshold) ==
  NullCount(df_T, j) * 100 >= threshold * NRows(df_T)

\* the same fraction taken over the wrong axis (the number of countries)
above_threshold_by_columns(df_T, j, threshold) ==
  NullCount(df_T, j) * 100 > threshold * NCols(df_T)

above_threshold(df_T, j, threshold) ==
  NullCount(df_T, j) * 100 > threshold * NRows(df_T)

country_drop_list(df_T, threshold) ==
  {df_T.columns[j] : j \in {k \in 1..NCols(df_T) :
                              above_threshold(df_T, k, threshold)}}

\* step 3: drop the countries above the threshold
drop_step(df_T, threshold) ==
  DropColumns(df_T, country_drop_list(df_T, threshold))

\* b_data_trimmed: set only where countries are dropped
b_data_trimmed_or_filled(df_T, threshold) ==
  \/ country_drop_list(df_T, threshold) # {}
  \/ \E j \in 1..NCols(df_T) : NullCount(df_T, j) > 0

b_data_trimmed(df_T, threshold) == country_drop_list(df_T, threshold) # {}

\* step 4: back-fill, then forward-fill, each up to limit
fill_step_backward_only(df_T, limit) ==
  IF \E j \in 1..NCols(df_T) : NullCount(df_T, j) > 0
  THEN bfill(df_T, limit)
  ELSE df_T

fill_step(df_T, limit) ==
  IF \E j \in 1..NCols(df_T) : NullCount(df_T, j) > 0
  THEN ffill(bfill(df_T, limit), limit)
  ELSE df_T

\* What the function returns on invalid arguments.
InvalidReturn == [kind |-> "None", df |-> None, b |-> FALSE]

clean_missing_data(df, threshold, limit) ==
  IF ~valid_args(df, YearsNone, threshold, limit) THEN InvalidReturn
  ELSE
    LET tc == transpose_df(df, "country")
        df_T == tc.df
        dropped == drop_step(df_T, threshold)
        ty == transpose_df(fill_step(dropped, limit), "year")
    IN  IF tc.kind = "raise" THEN [kind |-> "raise", df |-> None, b |-> FALSE]
        ELSE IF ty.kind = "raise"
             THEN [kind |-> "raise", df |-> None, b |-> FALSE]
             ELSE [kind |-> "tuple", df |-> ty.df, b |-> b_data_trimmed(df_T, threshold)]

\* ------------------------------------------------- operations on the heap
\* The outcome of a call: the heap after it, what was returned (kind is
\* "DataFrame", "None", "tuple", "bool" or "raise"), the reference r of the
\* returned frame (0 when there is none), the returned boolean b and the
\* diagnostics msgs printed by the argument check.
Outcome(h, kind, r, b, msgs) ==
  [heap |-> h, kind |-> kind, r |-> r, b |-> b, msgs |-> msgs]

\* Objects made during a call and not returned are garbage: the heap keeps
\* the n0 objects it had (as the call left them) and the returned one.
Collect(n0, o) ==
  IF o.r > n0
  THEN [o EXCEPT !.heap = Append(SubSeq(o.heap, 1, n0), o.heap[o.r]),
                 !.r = n0 + 1]
  ELSE [o EXCEPT !.heap = SubSeq(o.heap, 1, n0)]

\* A result computed on values becomes a new object.
Allocate(h, res, msgs) ==
  IF res.kind \in {"DataFrame", "tuple"}
  THEN Outcome(Append(h, res.df), res.kind, Len(h) + 1,
               IF res.kind = "tuple" THEN res.b ELSE FALSE, msgs)
  ELSE Outcome(h, res.kind, 0, FALSE, msgs)

\* df_raw.copy(deep=True): a new object with the same labels and cells.
\* (copy_alias is the assignment df = df_raw in its place.)
copy_alias(h, r) == [heap |-> h, r |-> r]

copy_deep(h, r) ==
  [heap |-> Append(h, [h[r] EXCEPT !.name = ""]), r |-> Len(h) + 1]

\* df.isnull().any(axis=1).sum()
RowsWithNaN(t) ==
  Cardinality({i \in 1..NRows(t) : \E j \in 1..NCols(t) : isnull(t.data[i][j])})

\* df.dropna(how='all', subset=labels): the rows missing in every column
\* carrying one of the labels go.
dropna_all(t, labels) ==
  TakeRows(t, KeepPos(t.index, LAMBDA i :
    \E j \in 1..NCols(t) : t.columns[j] \in labels /\ ~isnull(t.data[i][j])))

\* ------------------------------------------------------------- trim_cols
trim_cols(h, r, list_cols) ==
  LET msgs == valid_args_msgs(h[r], list_cols, 20, 3)
  IN  IF Len(msgs) > 0 THEN Outcome(h, "None", 0, FALSE, msgs)
      ELSE IF list_cols.kind = "list"
           THEN Outcome([h EXCEPT ![r] = DropColumns(@, SeqToSet(list_cols.l))],
                        "DataFrame", r, FALSE, msgs)
           ELSE Outcome(h, "DataFrame", r, FALSE, msgs)

\* --------------------------------------------------------- create_sub_df
\* df[list_cols]: the columns carrying each label, in the order of the list
select_columns(t, labels) ==
  TakeCols(t, Flatten([k \in 1..Len(labels) |->
                 KeepPos(t.columns, LAMBDA j : t.columns[j] = labels[k])]))

\* the two renames: prefix every label, then undo it for 'Country'
renamed_label_prefix_only(prepend_str, x) == prepend_str \o "_" \o x

renamed_label(prepend_str, x) ==
  IF prepend_str \o "_" \o x = prepend_str \o "_Country" THEN "Country"
  ELSE prepend_str \o "_" \o x

create_sub_df_value(df, list_cols, prepend_str) ==
  LET sub == select_columns(df, list_cols.l)
  IN  IF list_cols.kind # "list" THEN Raised
      ELSE IF \E j \in 1..NCols(sub) : sub.columns[j] \in IntLabels
           THEN Raised
           ELSE Returned([sub EXCEPT
                  !.columns = [j \in 1..NCols(sub) |->
                                 renamed_label(prepend_str, sub.columns[j])],
                  !.name = ""])

create_sub_df(h, r, list_cols, prepend_str) ==
  LET msgs == valid_args_msgs(h[r], list_cols, 20, 3)
  IN  IF Len(msgs) > 0 THEN Outcome(h, "None", 0, FALSE, msgs)
      ELSE Allocate(h, create_sub_df_value(h[r], list_cols, prepend_str), msgs)

\* -------------------------------------------------------- trim_and_clean
\* df.columns[1: index_year]: the labels of the years before start_year
early_columns_from_0(t, index_year) == {t.columns[j] : j \in 1..index_year}

early_columns(t, index_year) == {t.columns[j] : j \in 2..index_year}

\* steps 1 to 4 on the working copy at reference c of heap h1
trim_and_clean_steps(h1, c, start_year, threshold, limit) ==
  LET index_year == get_loc(h1[c], start_year.s)
      \* df.drop(df.columns[1: index_year], axis=1, inplace=True)
      early == early_columns(h1[c], index_year)
      h2 == IF index_year > 1 THEN [h1 EXCEPT ![c] = DropColumns(@, early)]
            ELSE h1
      country_NaN_total == RowsWithNaN(h2[c])
      \* df.dropna(how='all', subset=df.columns[1:], inplace=True)
      years == {h2[c].columns[j] : j \in 2..NCols(h2[c])}
      h3 == [h2 EXCEPT ![c] = dropna_all(@, years)]
      cleaned == clean_missing_data(h3[c], threshold, limit)
  IN  IF start_year.kind # "str" \/ index_year = -1
      THEN Outcome(h1, "raise", 0, FALSE, <<>>)
      ELSE IF country_NaN_total > 0
           THEN IF cleaned.kind = "tuple"
                THEN Outcome(Append(h3, cleaned.df), "DataFrame",
                             Len(h3) + 1, FALSE, <<>>)
                \* a bare None cannot be unpacked into df, b_data_cleaned
                ELSE Outcome(h3, "raise", 0, FALSE, <<>>)
           ELSE Outcome(h2, "DataFrame", c, FALSE, <<>>)

trim_and_clean(h, r, start_year, threshold, limit) ==
  LET msgs == valid_args_msgs(h[r], start_year, threshold, limit)
      copy == copy_deep(h, r)
  IN  IF Len(msgs) > 0 THEN Outcome(h, "None", 0, FALSE, msgs)
      ELSE Collect(Len(h),
             trim_and_clean_steps(copy.heap, copy.r, start_year, threshold,
                                  limit))

\* ------------------------------------------------------------- the state
VARIABLES
  heap,    \* the DataFrame objects, by reference 1..Len(heap)
  df,      \* the reference the caller holds and passes to the next call
  args,    \* the arguments of the latest call (or of the call to come)
  ret,     \* what the latest call returned
  ncalls   \* the number of calls made

vars == <<heap, df, args, ret, ncalls>>

Args(years, threshold, limit, column_type, prepend_str) ==
  [years |-> years, threshold |-> threshold, limit |-> limit,
   column_type |-> column_type, prepend_str |-> prepend_str]

\* the defaults of valid_args: years=None, threshold=20, limit=3
DefaultArgs == Args(YearsNone, 20, 3, "", "")

NoCall ==
  [op |-> "", arg |-> 0, kind |-> "", r |-> 0, b |-> FALSE, msgs |-> <<>>]

\* --------------------------------------------------------------- inputs
\* A year-major table as read from the csv: 'Country' first, then m year
\* columns, n countries, a default RangeIndex, the cells in miss missing,
\* the year columns in whole holding ints.
MkTyped(n, m, miss, whole) ==
  DataFrame(<<"Country">> \o SubSeq(YearLabels, 1, m), "",
            [i \in 1..n |-> RangeLabels[i]], "",
            [i \in 1..n |->
               <<Countries[i]>> \o
                 [j \in 1..m |-> IF <<i, j>> \in miss THEN NaN
                                 ELSE IF j \in whole THEN WholeVals[i][j]
                                 ELSE Vals[i][j]]],
            "")

MkTable(n, m, miss) == MkTyped(n, m, miss, {})

AllTables ==
  {MkTable(n, m, miss) :
     <<n, m, miss>> \in
       UNION {{<<n1, m1, ms>> : ms \in SUBSET ((1..n1) \X (1..m1))} :
                <<n1, m1>> \in (0..Len(Countries)) \X (0..MaxYears)}}

\* The same tables, and those where the first year column, or every year
\* column, is a column of ints (a column of ints has no missing value).
WholeColumns(m, miss) ==
  {w \in {{}, (1..m) \cap {1}, 1..m} : \A c \in miss : c[2] \notin w}

TypedTables ==
  UNION {{MkTyped(t.n, t.m, t.miss, w) : w \in WholeColumns(t.m, t.miss)} :
           t \in UNION {[n : {n1}, m : {m1},
                         miss : SUBSET ((1..n1) \X (1..m1))] :
                          <<n1, m1>> \in
                            (0..Len(Countries)) \X (0..MaxYears)}}

\* The tables the call sequences start from: two countries, three years;
\* A complete or with an interior gap, B complete, without any value, with
\* a leading gap or with a trailing gap of two.
SeqTables ==
  {MkTable(2, 3, ma \cup mb) :
     <<ma, mb>> \in
       {{}, {<<1, 2>>}} \X
       {{}, {<<2, 1>>, <<2, 2>>, <<2, 3>>}, {<<2, 1>>}, {<<2, 2>>, <<2, 3>>}}}

CleanThresholds == {0, 20, 25, 50, 99, 100}
CleanLimits == {0, 1, 2, 6}

ValidThresholds == {-1, 0, 50, 99, 100}
ValidLimits == {-1, 0, 3, 5, 6}

SeqThresholdLimit == {<<50, 1>>, <<0, 1>>, <<100, 1>>, <<50, 6>>}

Last(s) == s[Len(s)]

\* list_cols / years arguments built from the labels of table t, and one
\* label ("2000") no table has
ColumnLists(t) ==
  {YearsList(<<"2000">>)} \cup
  (IF NCols(t) = 0 THEN {}
   ELSE {YearsList(t.columns), YearsList(Tail(t.columns)),
         YearsList(<<Last(t.columns)>>), YearsList(<<Head(t.columns)>>),
         YearsList(<<Last(t.columns), Head(t.columns)>>),
         YearsList(<<Head(t.columns), "2000">>),
         YearsStr(Last(t.columns))})

StartYears(t) ==
  {YearsStr(y) : y \in SeqToSet(t.columns) \cup {"2000"}}

\* -------------------------------------------------------------- actions
\* The frame the caller passes: the one it holds, or None in its place.
DfArg == IF df = 0 THEN None ELSE heap[df]

\* The effect of one call by the caller, on the frame it holds; it goes on
\* with the frame the call returned, when it returned one.
Call(op, a, o) ==
  /\ heap' = o.heap
  /\ args' = a
  /\ ret' = [op |-> op, arg |-> df, kind |-> o.kind, r |-> o.r, b |-> o.b,
             msgs |-> o.msgs]
  /\ df' = IF o.r # 0 THEN o.r ELSE df
  /\ ncalls' = ncalls + 1

ValidArgs(years, threshold, limit) ==
  /\ ncalls < MaxCalls
  /\ Call("valid_args", Args(years, threshold, limit, "", ""),
          Outcome(heap, "bool", 0,
                  valid_args(DfArg, years, threshold, limit),
                  valid_args_msgs(DfArg, years, threshold, limit)))

CreateSubDf(list_cols, prepend_str) ==
  /\ ncalls < MaxCalls
  /\ Call("create_sub_df", Args(list_cols, 20, 3, "", prepend_str),
       create_sub_df(heap, df, list_cols, prepend_str))

TrimCols(list_cols) ==
  /\ ncalls < MaxCalls
  /\ Call("trim_cols", Args(list_cols, 20, 3, "", ""),
       trim_cols(heap, df, list_cols))

TransposeDf(column_type) ==
  /\ ncalls < MaxCalls
  /\ Call("transpose_df", Args(YearsNone, 20, 3, column_type, ""),
       Allocate(heap, transpose_df(heap[df], column_type), <<>>))

CleanMissingData(threshold, limit) ==
  /\ ncalls < MaxCalls
  /\ Call("clean_missing_data", Args(YearsNone, threshold, limit, "", ""),
       Allocate(heap, clean_missing_data(heap[df], threshold, limit),
                valid_args_msgs(heap[df], YearsNone, threshold, limit)))

TrimAndClean(start_year, threshold, limit) ==
  /\ ncalls < MaxCalls
  /\ Call("trim_and_clean", Args(start_year, threshold, limit, "", ""),
       trim_and_clean(heap, df, start_year, threshold, limit))

\* ------------------------------------------------------- specifications
InitWith(tables, argset) ==
  /\ heap \in {<<t>> : t \in tables}
  /\ df = 1
  /\ args \in argset
  /\ ret = NoCall
  /\ ncalls = 0

\* Any sequence of calls of the five table operations.
Init == InitWith(SeqTables, {DefaultArgs})

Next ==
  \/ \E lc \in ColumnLists(heap[df]) : CreateSubDf(lc, "p")
  \/ \E lc \in ColumnLists(heap[df]) : TrimCols(lc)
  \/ \E ct \in {"country", "year", "other"} : TransposeDf(ct)
  \/ \E tl \in SeqThresholdLimit : CleanMissingData(tl[1], tl[2])
  \/ \E sy \in StartYears(heap[df]) : \E tl \in SeqThresholdLimit :
       TrimAndClean(sy, tl[1], tl[2])

Spec == Init /\ [][Next]_vars

\* clean_missing_data on any table, and again on what it returned, with a
\* threshold and a limit fixed at the start.
InitClean ==
  InitWith(AllTables,
           {Args(YearsNone, t, l, "", "") :
              <<t, l>> \in CleanThresholds \X CleanLimits})

NextClean == ncalls < 2 /\ CleanMissingData(args.threshold, args.limit)

SpecClean == InitClean /\ [][NextClean]_vars

\* transpose_df on any table: to countries in columns, then back.
InitTranspose == InitWith(TypedTables, {DefaultArgs})

NextTranspose ==
  ncalls < 2 /\ \E ct \in {"country", "year"} : TransposeDf(ct)

SpecTranspose == InitTranspose /\ [][NextTranspose]_vars

\* valid_args on a table (or on None in its place), with arguments fixed
\* at the start.
InitValid ==
  /\ heap \in {<<t>> : t \in SeqTables}
  /\ df \in {0, 1}
  /\ args \in {Args(y, t, l, "", "") :
                 <<y, t, l>> \in
                   (ColumnLists(heap[1]) \cup StartYears(heap[1])
                      \cup {YearsNone})
                   \X ValidThresholds \X ValidLimits}
  /\ ret = NoCall
  /\ ncalls = 0

NextValid ==
  ncalls < 1 /\ ValidArgs(args.years, args.threshold, args.limit)

SpecValid == InitValid /\ [][NextValid]_vars

\* ================================================================ claims
\* The frame passed to the latest call and the frame it returned.
In == heap[ret.arg]
Out == heap[ret.r]

\* The same labels on both axes, in the same order, and the same cells,
\* dtype included.
df_identical(a, b) ==
  a.columns = b.columns /\ a.index = b.index /\ a.data = b.data

\* The same labels on both axes, in the same order, and equal values: an
\* int equals the float of the same value (10 == 10.0).
df_equals(a, b) ==
  /\ a.columns = b.columns /\ a.index = b.index
  /\ \A i \in 1..NRows(a) : \A j \in 1..NCols(a) :
       AsFloat(a.data[i][j]) = AsFloat(b.data[i][j])

\* Exactly one column is labelled 'Country', and it is the first.
OneIdentifierFirst(t) ==
  /\ NCols(t) >= 1
  /\ t.columns[1] = "Country"
  /\ \A j \in 2..NCols(t) : t.columns[j] # "Country"

Cleaned == ret.op = "clean_missing_data" /\ ret.kind = "tuple" /\ ret.r # 0

ValidThresholdLimit == args.threshold \in 0..99 /\ args.limit \in 0..5

NYears(t) == NCols(t) - 1

\* the number of missing year values of the entity in row i
MissingYears(t, i) == Cardinality({j \in 2..NCols(t) : isnull(t.data[i][j])})

\* the rows of t whose identifier is ident
RowsOf(t, ident) == {k \in 1..NRows(t) : t.data[k][1] = ident}

Dropped(i) == RowsOf(Out, In.data[i][1]) = {}

\* ------------------------------------------------------------------- C1
\* C1: clean_missing_data with a valid threshold and limit returns a table,
\* and an entity of the input is absent from it if and only if its fraction
\* of missing year values is strictly greater than threshold/100 (an entity
\* at exactly threshold/100 stays).
C1_DroppedIffAboveThreshold ==
  (ret.op = "clean_missing_data" /\ ValidThresholdLimit) =>
    /\ Cleaned
    /\ \A i \in 1..NRows(In) :
         Dropped(i) <=>
           MissingYears(In, i) * 100 > args.threshold * NYears(In)

\* An entity exactly at the threshold stayed and one above it was dropped.
C1_Witness ==
  /\ Cleaned
  /\ \E i, k \in 1..NRows(In) :
       /\ MissingYears(In, i) > 0
       /\ MissingYears(In, i) * 100 = args.threshold * NYears(In)
       /\ ~Dropped(i)
       /\ MissingYears(In, k) < NYears(In)
       /\ Dropped(k)

\* ------------------------------------------------------------------- C2
\* a..b is a gap of row i: a maximal run of missing values in its years
Gap(t, i, a, b) ==
  /\ 2 <= a /\ a <= b /\ b <= NCols(t)
  /\ \A j \in a..b : isnull(t.data[i][j])
  /\ (a = 2 \/ ~isnull(t.data[i][a - 1]))
  /\ (b = NCols(t) \/ ~isnull(t.data[i][b + 1]))

Gaps(t, i) ==
  {ab \in (2..NCols(t)) \X (2..NCols(t)) : Gap(t, i, ab[1], ab[2])}

GapLen(ab) == ab[2] - ab[1] + 1

\* a gap with a value on both sides
Interior(t, ab) == ab[1] > 2 /\ ab[2] < NCols(t)

FullyFilled(i, ab) ==
  \A k \in RowsOf(Out, In.data[i][1]) :
    \A j \in ab[1]..ab[2] : ~isnull(Out.data[k][j])

\* C2 as stated: a gap of exactly limit is fully filled and a gap of
\* limit+1 keeps a missing value, wherever the gap sits.
C2_AsStated ==
  Cleaned =>
    \A i \in 1..NRows(In) : ~Dropped(i) =>
      \A ab \in Gaps(In, i) :
        /\ GapLen(ab) = args.limit => FullyFilled(i, ab)
        /\ GapLen(ab) = args.limit + 1 => ~FullyFilled(i, ab)

\* C2: for every surviving entity, a gap of exactly limit missing values is
\* fully filled wherever it sits; a leading or trailing gap is fully filled
\* only if it is no longer than limit (so one of limit+1 keeps a missing
\* value); an interior gap is filled from both sides, and is fully filled
\* if and only if it is no longer than 2*limit (so one of limit+1 keeps a
\* missing value only when limit = 0).
C2_FilledUpToLimitPerSide ==
  Cleaned =>
    \A i \in 1..NRows(In) : ~Dropped(i) =>
      \A ab \in Gaps(In, i) :
        FullyFilled(i, ab) <=>
          IF Interior(In, ab) THEN GapLen(ab) <= 2 * args.limit
          ELSE GapLen(ab) <= args.limit

\* One entity's interior gap of limit+1 was fully filled, another's leading
\* or trailing gap of limit+1 kept a missing value, and a gap of exactly
\* limit was filled.
C2_Witness ==
  /\ Cleaned
  /\ args.limit >= 1
  /\ \E i, k \in 1..NRows(In) :
       /\ ~Dropped(i) /\ ~Dropped(k)
       /\ \E ab \in Gaps(In, i) :
            Interior(In, ab) /\ GapLen(ab) = args.limit + 1
              /\ FullyFilled(i, ab)
       /\ \E ab \in Gaps(In, k) :
            ~Interior(In, ab) /\ GapLen(ab) = args.limit + 1
              /\ ~FullyFilled(k, ab)
       /\ \E ab \in Gaps(In, k) :
            GapLen(ab) = args.limit /\ FullyFilled(k, ab)

\* ------------------------------------------------------------------- C3
\* The latest call cleaned, with the same threshold and limit, the table a
\* first call had returned.
CleanedTwice ==
  /\ Cleaned
  /\ ncalls = 2 /\ Len(heap) = 3 /\ ret.arg = 2 /\ ret.r = 3
  /\ heap[2].name = "col_type_year"

HasNaN(t) == \E i \in 1..NRows(t) : \E j \in 1..NCols(t) : isnull(t.data[i][j])

\* C3 as stated: the second call drops nothing and its result equals the
\* first.
C3_AsStated ==
  (ncalls = 2 /\ Len(heap) >= 2 /\ ret.op = "clean_missing_data") =>
    CleanedTwice /\ ~ret.b /\ df_identical(Out, In)

\* C3: cleaning again, with the same threshold and limit, the table that
\* clean_missing_data returned drops no further entity and changes no value
\* that is present; it may fill missing values the first call left (a gap
\* longer than the limit is filled further on each call), so the second
\* result equals the first when the limit is 0 or the first result has no
\* missing value.
C3_SecondCallOnlyFills ==
  (ncalls = 2 /\ Len(heap) >= 2 /\ ret.op = "clean_missing_data") =>
    /\ CleanedTwice
    /\ ~ret.b
    /\ Out.columns = In.columns /\ Out.index = In.index
    /\ \A i \in 1..NRows(In) : \A j \in 1..NCols(In) :
         ~isnull(In.data[i][j]) => Out.data[i][j] = In.data[i][j]
    /\ (args.limit = 0 \/ ~HasNaN(In)) => df_identical(Out, In)

\* The second call filled a value the first call had left missing.
C3_Witness ==
  /\ CleanedTwice
  /\ ~ret.b
  /\ \E i \in 1..NRows(In) : \E j \in 1..NCols(In) :
       isnull(In.data[i][j]) /\ ~isnull(Out.data[i][j])

\* ------------------------------------------------------------------- C4
\* C4: the flag clean_missing_data returns is true if and only if an entity
\* of the input was dropped; filling does not set it.
C4_FlagIffDropped ==
  Cleaned => (ret.b <=> \E i \in 1..NRows(In) : Dropped(i))

\* A call that dropped nothing and filled a value returned false.
C4_Witness ==
  /\ Cleaned /\ ~ret.b
  /\ \A i \in 1..NRows(In) : ~Dropped(i)
  /\ \E i \in 1..NRows(In) : \E j \in 2..NCols(In) :
       isnull(In.data[i][j]) /\ ~isnull(Out.data[i][j])

\* ------------------------------------------------------------------- C5
\* C5: with a threshold outside 0..99 or a limit outside 0..5,
\* clean_missing_data returns the pair (None, False), never a bare None,
\* and leaves the caller's table as it was.
C5_InvalidReturnsPair ==
  (ret.op = "clean_missing_data" /\ ~ValidThresholdLimit) =>
    /\ ret.kind = "tuple" /\ ret.r = 0 /\ ~ret.b
    /\ Len(heap) = 1 /\ heap[1] \in AllTables

\* ------------------------------------------------------------------- C6
\* The latest call transposed back, in 'year' mode, what a first call in
\* 'country' mode had made of the table the caller started with.
RoundTrip ==
  /\ ncalls = 2 /\ Len(heap) >= 2
  /\ heap[2].name = "col_type_country"
  /\ ret.op = "transpose_df" /\ args.column_type = "year" /\ ret.arg = 2

\* C6: transposing a year-major table in 'country' mode and the result in
\* 'year' mode returns a table equal to the original: the same column
\* labels in the same order, the identifier column first, the same rows in
\* the same order, the same values.
C6_TransposeRoundTrip ==
  RoundTrip =>
    /\ ret.kind = "DataFrame" /\ ret.r = 3
    /\ df_equals(heap[3], heap[1])
    /\ OneIdentifierFirst(heap[3])
    /\ heap[3].name = "col_type_year"
    \* the dtypes too, unless ints stand beside floats or missing values
    /\ (\/ Cells(heap[1]) \cap IntStrings = {}
        \/ Cells(heap[1]) \cap (FloatStrings \cup {NaN}) = {})
         => df_identical(heap[3], heap[1])

\* The round trip of a table with two countries, years and a missing value.
C6_Witness ==
  /\ RoundTrip /\ ret.kind = "DataFrame"
  /\ NRows(heap[1]) = 2 /\ NCols(heap[1]) >= 3 /\ HasNaN(heap[1])
  /\ Cells(heap[1]) \cap IntStrings # {}
  /\ NCols(heap[2]) = 2

\* ------------------------------------------------------------------ C10
Count(s, x) == Cardinality({k \in 1..Len(s) : s[k] = x})

RequestedLabels ==
  IF args.years.kind = "str" THEN <<args.years.s>>
  ELSE IF args.years.kind = "list" THEN args.years.l
  ELSE <<>>

\* the requested labels (with repetitions) the table does not have
MissingLabels ==
  {k \in 1..Len(RequestedLabels) :
     RequestedLabels[k] \notin SeqToSet(heap[1].columns)}

\* C10: valid_args returns false for every threshold outside 0..99 and for
\* every limit outside 0..5 whatever the other arguments, and whenever the
\* table lacks a requested label (a single one or one of a list); a failed
\* check does not stop the others: each failure is reported.
C10_ValidArgs ==
  ret.op = "valid_args" =>
    /\ args.threshold \notin 0..99 => ~ret.b
    /\ args.limit \notin 0..5 => ~ret.b
    /\ (df # 0 /\ MissingLabels # {}) => ~ret.b
    /\ Count(ret.msgs, "threshold") =
         (IF args.threshold \in 0..99 THEN 0 ELSE 1)
    /\ Count(ret.msgs, "limit") = (IF args.limit \in 0..5 THEN 0 ELSE 1)
    /\ Count(ret.msgs, "dataframe") = (IF df = 0 THEN 1 ELSE 0)
    /\ df # 0 => Count(ret.msgs, "year") = Cardinality(MissingLabels)
    /\ ret.b <=> Len(ret.msgs) = 0

\* A call with an unknown label, a threshold and a limit out of range: all
\* three reported.
C10_Witness ==
  /\ ret.op = "valid_args" /\ ~ret.b /\ df # 0
  /\ MissingLabels # {}
  /\ args.threshold \notin 0..99 /\ args.limit \notin 0..5
  /\ Len(ret.msgs) = 3

\* ------------------------------------------------------------------- C7
\* C7: a call of trim_and_clean, whatever its arguments and whatever it
\* returns, leaves the table passed to it (and every other table the caller
\* holds) with the columns, rows and values it had.
C7_SourceNeverMutated ==
  [][(ncalls' = ncalls + 1 /\ ret'.op = "trim_and_clean") =>
       SubSeq(heap', 1, Len(heap)) = heap]_vars

\* trim_and_clean returned a table with fewer columns and fewer rows than
\* the one passed, and with a value filled in.
C7_Witness ==
  /\ ret.op = "trim_and_clean" /\ ret.kind = "DataFrame"
  /\ NCols(Out) < NCols(In) /\ NRows(Out) < NRows(In)
  /\ \E i \in 1..NRows(In) : \E k \in RowsOf(Out, In.data[i][1]) :
       \E j \in 2..NCols(Out) :
         /\ ~isnull(Out.data[k][j])
         /\ isnull(In.data[i][j + NCols(In) - NCols(Out)])

\* ------------------------------------------------------------------- C8
UniqueLabels(t) ==
  \A j, k \in 1..NCols(t) : t.columns[j] = t.columns[k] => j = k

\* The latest call was trim_and_clean, with valid arguments, on a table
\* with the identifier column first and start_year the label of a year
\* column.
TrimmedFromYear ==
  /\ ret.op = "trim_and_clean"
  /\ ValidThresholdLimit
  /\ OneIdentifierFirst(In) /\ UniqueLabels(In)
  /\ args.years.kind = "str"
  /\ get_loc(In, args.years.s) >= 1

\* C8: for valid arguments with start_year a year column, trim_and_clean
\* returns a table whose columns are the identifier column followed by the
\* input's year columns from start_year on, in their order (none when
\* start_year is the first year column).
C8_ColumnsFromStartYear ==
  TrimmedFromYear =>
    /\ ret.kind = "DataFrame" /\ ret.r # 0
    /\ Out.columns =
         <<"Country">> \o SubSeq(In.columns, get_loc(In, args.years.s) + 1,
                                 NCols(In))
    /\ get_loc(In, args.years.s) = 1 => Out.columns = In.columns

\* Two year columns before start_year were trimmed.
C8_Witness ==
  /\ TrimmedFromYear /\ ret.kind = "DataFrame"
  /\ get_loc(In, args.years.s) = 3
  /\ NCols(Out) = NCols(In) - 2

\* ------------------------------------------------------------------- C9
\* Rows are entities: the table is not tagged as transposed to countries in
\* columns (or transposed raw) and its rows carry the default integer index.
YearMajor(t) ==
  /\ t.name \notin {"col_type_country", "col_type_other"}
  /\ SeqToSet(t.index) \subseteq IntLabels

\* C9 as stated: every year-major table a call returns has exactly one
\* identifier column, the first.
C9_AsStated ==
  (ret.r # 0 /\ YearMajor(Out)) => OneIdentifierFirst(Out)

\* An entity-major table as transpose_df returns it, in 'country' mode,
\* from a table with the identifier column first.
EntityMajor(t) ==
  /\ t.name = "col_type_country"
  /\ t.colname = "Country"
  /\ "Country" \notin SeqToSet(t.columns)

\* The call keeps to the identifier column: it is made on a table with one
\* identifier column, the first; create_sub_df is given a list that starts
\* with the identifier label and does not repeat it; trim_cols is given a
\* list without it; transpose_df is called in 'year' mode on an
\* entity-major table.
KeepsIdentifier(t, op, a) ==
  IF op = "transpose_df"
  THEN a.column_type = "year" /\ EntityMajor(t)
  ELSE /\ OneIdentifierFirst(t)
       /\ op = "create_sub_df" =>
            /\ a.years.kind = "list" /\ Len(a.years.l) >= 1
            /\ a.years.l[1] = "Country"
            /\ \A k \in 2..Len(a.years.l) : a.years.l[k] # "Country"
       /\ op = "trim_cols" =>
            (a.years.kind = "list" => "Country" \notin SeqToSet(a.years.l))

\* C9: a call of create_sub_df, trim_cols, clean_missing_data or
\* trim_and_clean on a table with exactly one identifier column, the first,
\* returns (when it returns a table) a table with exactly one identifier
\* column, the first, provided the list given to create_sub_df starts with
\* the identifier label and does not repeat it and the list given to
\* trim_cols does not contain it; and so does transpose_df in 'year' mode on
\* the entity-major table that 'country' mode made of such a table.  With
\* other lists accepted by the validation the identifier column is dropped,
\* moved or repeated.
C9_IdentifierKeptByCall ==
  [][(ncalls' = ncalls + 1 /\ ret'.r # 0
        /\ KeepsIdentifier(heap[df], ret'.op, args')) =>
       OneIdentifierFirst(heap'[ret'.r])]_vars

\* trim_cols dropped a year column and the identifier column is still the
\* first, after an earlier call.
C9_Witness ==
  /\ ncalls = 2
  /\ ret.op = "trim_cols" /\ ret.r # 0
  /\ args.years.kind = "list" /\ "Country" \notin SeqToSet(args.years.l)
  /\ OneIdentifierFirst(Out) /\ NCols(Out) >= 2

====
